---------------------------- MODULE Spec2Model ----------------------------
(***************************************************************************)
(* nojoy-rs: enumeration of HID game-controller device nodes and the       *)
(* enable/disable requests on them (src/devenum.rs, src/devenum/           *)
(* setupdienum.rs).                                                        *)
(*                                                                         *)
(* Text is modelled as it is stored: a property buffer is a sequence of    *)
(* bytes, a u16 slice a sequence of code units, a String a sequence of     *)
(* Unicode scalar values.  A Result is a record with a tag: "Ok" with      *)
(* val, "Err" with kind and code, or "Panic" (an unwrap or a slice index   *)
(* that aborts the thread).                                                *)
(***************************************************************************)
EXTENDS Integers, Sequences, FiniteSets

(***************************************************************************)
(* Bounds of the model.                                                    *)
(***************************************************************************)
\* longest device tree enumerated
MaxNodes == 3
\* longest property buffer drawn for a single property read, in UTF-16 code
\* units
MaxUnits == 3
\* next() calls a consumer makes on the enumerator after it returned None
MaxExtraNext == 2

(***************************************************************************)
(* Constants of the platform API the program imports.                      *)
(***************************************************************************)
DN_STARTED == 8
DN_DISABLEABLE == 8192
CR_SUCCESS == 0
CR_NO_SUCH_DEVNODE == 13
CR_FAILURE == 19
ERROR_SUCCESS == 0
ERROR_INSUFFICIENT_BUFFER == 122
ERROR_INVALID_DATA == 13
REPLACEMENT_CHARACTER == 65533

GAME_CONTROLLER_HARDWARE_ID ==
  <<72, 73, 68, 95, 68, 69, 86, 73, 67, 69, 95, 83, 89, 83, 84, 69, 77, 95, 71, 65, 77, 69>>

(***************************************************************************)
(* Results.                                                                *)
(***************************************************************************)
Ok(v) == [tag |-> "Ok", val |-> v]
ErrWin32(c) == [tag |-> "Err", kind |-> "Win32", code |-> c]
ErrConfigRet(c) == [tag |-> "Err", kind |-> "ConfigRet", code |-> c]
ErrNotFound == [tag |-> "Err", kind |-> "NotFound", code |-> 0]
Panic == [tag |-> "Panic"]
NoResult == [tag |-> "None"]

IsOk(r) == r.tag = "Ok"
IsErr(r) == r.tag = "Err"
IsPanic(r) == r.tag = "Panic"

(***************************************************************************)
(* Bit operations on status flags (CM_DEVNODE_STATUS_FLAGS is a u32).      *)
(***************************************************************************)
RECURSIVE BitAnd(_, _)
BitAnd(a, b) ==
  IF a = 0 \/ b = 0 THEN 0
  ELSE (a % 2) * (b % 2) + 2 * BitAnd(a \div 2, b \div 2)

(***************************************************************************)
(* UTF-16.                                                                 *)
(***************************************************************************)
IsHighSurrogate(u) == u >= 55296 /\ u <= 56319
IsLowSurrogate(u) == u >= 56320 /\ u <= 57343
IsSurrogate(u) == u >= 55296 /\ u <= 57343

\* core::char::decode_utf16: one item per scalar value, -1 for an unpaired
\* surrogate (the Err item of the iterator).
RECURSIVE DecodeFrom(_, _, _)
DecodeFrom(u, i, acc) ==
  IF i > Len(u) THEN acc
  ELSE IF ~IsSurrogate(u[i]) THEN DecodeFrom(u, i + 1, Append(acc, u[i]))
  ELSE IF IsHighSurrogate(u[i]) /\ i < Len(u) /\ IsLowSurrogate(u[i + 1])
    THEN DecodeFrom(u, i + 2,
                    Append(acc, 65536 + (u[i] - 55296) * 1024 + (u[i + 1] - 56320)))
  ELSE DecodeFrom(u, i + 1, Append(acc, -1))

decode_utf16(u) == DecodeFrom(u, 1, <<>>)

\* String::from_utf16(..).unwrap(): the string, or a panic on an unpaired
\* surrogate.
from_utf16_unwrap(u) ==
  LET d == decode_utf16(u) IN
  IF \E i \in 1..Len(d) : d[i] = -1 THEN Panic ELSE Ok(d)

\* OsString::from_wide(..).to_string_lossy(): every unit is kept, an unpaired
\* surrogate becomes U+FFFD.
RECURSIVE ReplaceErrors(_, _, _)
ReplaceErrors(d, i, acc) ==
  IF i > Len(d) THEN acc
  ELSE ReplaceErrors(d, i + 1,
                     Append(acc, IF d[i] = -1 THEN REPLACEMENT_CHARACTER ELSE d[i]))

from_wide_lossy(u) == ReplaceErrors(decode_utf16(u), 1, <<>>)

\* from_raw_parts(buf.as_ptr() as *const u16, buf.len() / 2): little-endian
\* code units, a trailing odd byte is not part of the slice.
RECURSIVE U16From(_, _, _)
U16From(buf, i, acc) ==
  IF i > Len(buf) \div 2 THEN acc
  ELSE U16From(buf, i + 1, Append(acc, buf[2 * i - 1] + 256 * buf[2 * i]))

U16Slice(buf) == U16From(buf, 1, <<>>)

\* slice.iter().position(|&c| c == 0): 0-based index of the first null unit,
\* -1 for None.
RECURSIVE PositionOfNul(_, _)
PositionOfNul(s, i) ==
  IF i > Len(s) THEN -1
  ELSE IF s[i] = 0 THEN i - 1
  ELSE PositionOfNul(s, i + 1)

from_utf16_in_u8_end(buf, pos) == IF pos = -1 THEN Len(buf) ELSE pos

\* from_utf16_in_u8.  An empty Vec<u8> has a dangling pointer of alignment 1,
\* so the u16 slice made from it is undefined behaviour: misaligned tells
\* whether the build's precondition check aborts there.
from_utf16_in_u8(buf, misaligned) ==
  IF Len(buf) = 0 /\ misaligned THEN Panic
  ELSE
    LET slice == U16Slice(buf)
        end == from_utf16_in_u8_end(buf, PositionOfNul(slice, 1))
    IN IF end > Len(slice) THEN Panic
       ELSE from_utf16_unwrap(SubSeq(slice, 1, end))

\* slice.split(|&c| c == 0): the runs between null units, empty runs included.
RECURSIVE SplitFrom(_, _, _, _)
SplitFrom(s, i, cur, acc) ==
  IF i > Len(s) THEN Append(acc, cur)
  ELSE IF s[i] = 0 THEN SplitFrom(s, i + 1, <<>>, Append(acc, cur))
  ELSE SplitFrom(s, i + 1, Append(cur, s[i]), acc)

SplitOnNul(s) == SplitFrom(s, 1, <<>>, <<>>)

\* the filter forgotten: empty runs are kept
KeepSegmentAll(p) == TRUE

\* .filter(|p| !p.is_empty())
KeepSegment(p) == p # <<>>

\* .map(|p| String::from_utf16(p).unwrap()).collect()
RECURSIVE MapUnwrap(_)
MapUnwrap(segs) ==
  IF segs = <<>> THEN Ok(<<>>)
  ELSE LET h == from_utf16_unwrap(segs[1]) IN
       IF IsPanic(h) THEN Panic
       ELSE LET t == MapUnwrap(Tail(segs)) IN
            IF IsPanic(t) THEN Panic ELSE Ok(<<h.val>> \o t.val)

multi_sz_from_utf16_in_u8(buf, misaligned) ==
  IF Len(buf) = 0 /\ misaligned THEN Panic
  ELSE MapUnwrap(SelectSeq(SplitOnNul(U16Slice(buf)), KeepSegment))

is_game_controller(hwids) ==
  \E i \in 1..Len(hwids) : hwids[i] = GAME_CONTROLLER_HARDWARE_ID


(***************************************************************************)
(* The platform's side of a property read.  A property of a node is the    *)
(* record [q, f, data]: the code the size query returns, the code the      *)
(* fetch returns, and the stored data (bytes for a registry property,      *)
(* code units for the instance id).                                        *)
(***************************************************************************)
\* the bytes of a sequence of code units, little-endian
RECURSIVE Utf16LE(_)
Utf16LE(s) ==
  IF s = <<>> THEN <<>>
  ELSE <<s[1] % 256, s[1] \div 256>> \o Utf16LE(Tail(s))

\* REG_SZ data: the text and its terminator
SzData(s) == Utf16LE(s) \o <<0, 0>>

\* REG_MULTI_SZ data: every string with its terminator, then the final one
RECURSIVE MultiSzData(_)
MultiSzData(strs) ==
  IF strs = <<>> THEN <<0, 0>>
  ELSE SzData(strs[1]) \o MultiSzData(Tail(strs))

\* RequiredSize of the size query: the size of the data when the call
\* reports it, the caller's 0 when the call fails otherwise
RequiredSize(dev) ==
  IF dev.q \in {ERROR_SUCCESS, ERROR_INSUFFICIENT_BUFFER} THEN Len(dev.data) ELSE 0

\* the fetch call on a buffer: the error code, or the buffer filled
FetchInto(dev, buf) ==
  IF dev.f # ERROR_SUCCESS THEN ErrWin32(dev.f)
  ELSE IF Len(buf) < Len(dev.data) THEN ErrWin32(ERROR_INSUFFICIENT_BUFFER)
  ELSE Ok(dev.data \o SubSeq(buf, Len(dev.data) + 1, Len(buf)))

(***************************************************************************)
(* Property Accessor.                                                      *)
(***************************************************************************)
\* "insufficient buffer" taken for the failure it looks like
assert_success_only(code) ==
  IF code = ERROR_SUCCESS THEN Ok(0) ELSE ErrWin32(code)

assert_insufficient_buffer(code) ==
  IF code = ERROR_SUCCESS THEN Ok(0)
  ELSE IF code = ERROR_INSUFFICIENT_BUFFER THEN Ok(0)
  ELSE ErrWin32(code)

prop_bufsize(dev) ==
  LET r == assert_insufficient_buffer(dev.q) IN
  IF IsErr(r) THEN r ELSE Ok(RequiredSize(dev))

\* vec![0u8; buflen as usize] and vec![0u16; req_size as usize]
RECURSIVE Zeros(_, _)
Zeros(n, acc) == IF n <= 0 THEN acc ELSE Zeros(n - 1, Append(acc, 0))

AllocBuf(buflen) == Zeros(buflen, <<>>)

\* what each accessor makes of the fetched buffer
DecodeBuf(kind, buf, misaligned) ==
  CASE kind = "sz" -> from_utf16_in_u8(buf, misaligned)
    [] kind = "multi_sz" -> multi_sz_from_utf16_in_u8(buf, misaligned)
    [] kind = "instance_id" -> Ok(from_wide_lossy(buf))

ReadProperty(kind, dev, misaligned) ==
  LET n == prop_bufsize(dev) IN
  IF IsErr(n) THEN n
  ELSE LET b == FetchInto(dev, AllocBuf(n.val)) IN
       IF IsErr(b) THEN b ELSE DecodeBuf(kind, b.val, misaligned)

device_prop_sz(dev, misaligned) == ReadProperty("sz", dev, misaligned)
device_prop_multi_sz(dev, misaligned) == ReadProperty("multi_sz", dev, misaligned)
device_instance_id(dev) == ReadProperty("instance_id", dev, FALSE)

(***************************************************************************)
(* Status flags.                                                           *)
(***************************************************************************)
\* st is what CM_Get_DevNode_Status does: the code it returns and the flags
\* it writes
device_status_flags(st) ==
  IF st.cr = CR_SUCCESS THEN Ok(st.flags)
  ELSE IF st.cr = CR_NO_SUCH_DEVNODE THEN Ok(0)
  ELSE ErrConfigRet(st.cr)

\* the match without its first arm
StatusOfStartedOnly(flags) ==
  IF BitAnd(flags, DN_STARTED) = 0 THEN "Disabled" ELSE "Enabled"

StatusOf(flags) ==
  IF flags = 0 THEN "Disconnected"
  ELSE IF BitAnd(flags, DN_STARTED) = 0 THEN "Disabled"
  ELSE "Enabled"

DisableableOf(flags) == BitAnd(flags, DN_DISABLEABLE) # 0

\* GameController::try_from_devinfo on a node of the device set
try_from_devinfo(node, st, misaligned) ==
  LET name == device_prop_sz(node.desc, misaligned) IN
  IF ~IsOk(name) THEN name
  ELSE LET manufacturer == device_prop_sz(node.mfg, misaligned) IN
  IF ~IsOk(manufacturer) THEN manufacturer
  ELSE LET instance_id == device_instance_id(node.iid) IN
  IF ~IsOk(instance_id) THEN instance_id
  ELSE LET flags == device_status_flags(st) IN
  IF ~IsOk(flags) THEN flags
  ELSE Ok([manufacturer |-> manufacturer.val,
           name |-> name.val,
           instance_id |-> instance_id.val,
           status |-> StatusOf(flags.val),
           disableable |-> DisableableOf(flags.val)])

\* try_from_devinfo got as far as its status query: it returned a record, or
\* the error only device_status_flags makes
StatusQueried(c) == IsOk(c) \/ (IsErr(c) /\ c.kind = "ConfigRet")

(***************************************************************************)
(* Device nodes the model draws its device trees from.  A tree is a        *)
(* sequence of profile names; SP_DEVINFO_DATA is modelled by its DevInst,  *)
(* the 1-based position of the node in the tree.                           *)
(***************************************************************************)
TextUsbVid == <<85, 83, 66, 92, 86, 73, 68, 95, 49, 50, 51, 52>>
TextDescription ==
  <<72, 73, 68, 45, 99, 111, 109, 112, 108, 105, 97, 110, 116, 32, 103, 97, 109,
    101, 32, 99, 111, 110, 116, 114, 111, 108, 108, 101, 114>>
TextManufacturer ==
  <<40, 83, 116, 97, 110, 100, 97, 114, 100, 32, 115, 121, 115, 116, 101, 109, 32,
    100, 101, 118, 105, 99, 101, 115, 41>>
TextIdA == <<65>>
TextIdB == <<66>>

Stored(data) == [q |-> ERROR_INSUFFICIENT_BUFFER, f |-> ERROR_SUCCESS, data |-> data]
Absent == [q |-> ERROR_INVALID_DATA, f |-> ERROR_SUCCESS, data |-> <<>>]
FetchFails(data) ==
  [q |-> ERROR_INSUFFICIENT_BUFFER, f |-> ERROR_INVALID_DATA, data |-> data]

\* the instance id as SetupDiGetDeviceInstanceIdW stores it: the text and
\* its terminator, RequiredSize counting both
IdData(s) == s \o <<0>>

GameHwid == Stored(MultiSzData(<<TextUsbVid, GAME_CONTROLLER_HARDWARE_ID, <<>> >>))

PadNode(text) ==
  [hwid |-> GameHwid,
   desc |-> Stored(SzData(TextDescription)),
   mfg |-> Stored(SzData(TextManufacturer)),
   iid |-> Stored(IdData(text))]

ProfileNames ==
  {"other", "nohwid", "padA", "padB", "nodesc", "nomfg", "noiid", "rawdesc", "badhwid"}

Profile(p) ==
  CASE p = "other" ->
         \* a hardware id that only starts with the marker
         [PadNode(TextIdA) EXCEPT !.hwid =
            Stored(MultiSzData(<<TextUsbVid, GAME_CONTROLLER_HARDWARE_ID \o <<88>> >>))]
    [] p = "nohwid" -> [PadNode(TextIdA) EXCEPT !.hwid = Absent]
    [] p = "padA" -> PadNode(TextIdA)
    [] p = "padB" ->
         [PadNode(TextIdB) EXCEPT !.hwid =
            Stored(MultiSzData(<<GAME_CONTROLLER_HARDWARE_ID>>))]
    [] p = "nodesc" -> [PadNode(TextIdA) EXCEPT !.desc = Absent]
    [] p = "nomfg" ->
         [PadNode(TextIdB) EXCEPT !.mfg = FetchFails(SzData(TextManufacturer))]
    [] p = "noiid" -> [PadNode(TextIdA) EXCEPT !.iid = Absent]
    [] p = "rawdesc" ->
         \* a description stored without its terminator
         [PadNode(TextIdB) EXCEPT !.desc = Stored(Utf16LE(<<78>>))]
    [] p = "badhwid" ->
         \* a hardware id with an unpaired surrogate
         [PadNode(TextIdA) EXCEPT !.hwid =
            Stored(MultiSzData(<<GAME_CONTROLLER_HARDWARE_ID, <<55357>> >>))]

RECURSIVE SeqsUpTo(_, _)
SeqsUpTo(S, n) ==
  IF n = 0 THEN {<<>>}
  ELSE LET shorter == SeqsUpTo(S, n - 1) IN
       shorter \cup {Append(s, x) : s \in {t \in shorter : Len(t) = n - 1}, x \in S}

Trees == SeqsUpTo(ProfileNames, MaxNodes)

\* instance ids a caller asks for: "A", "A\0", "B\0"
Ids == {TextIdA, IdData(TextIdA), IdData(TextIdB)}

\* what CM_Get_DevNode_Status can answer
FlagValues == {0, 2, 8, 8192, 8200}
StatusOutcomes ==
  {[cr |-> CR_SUCCESS, flags |-> f] : f \in FlagValues}
    \cup {[cr |-> CR_NO_SUCH_DEVNODE, flags |-> f] : f \in {0, 8}}
    \cup {[cr |-> CR_FAILURE, flags |-> 0]}

\* what CM_Enable_DevNode and CM_Disable_DevNode can return
ConfigRets == {CR_SUCCESS, CR_NO_SUCH_DEVNODE, CR_FAILURE}

(***************************************************************************)
(* Device Enumerator.                                                      *)
(***************************************************************************)
\* SetupDiEnumDeviceInfo(devinfo, index, &mut data) succeeds
SetupDiEnumDeviceInfo(t, i) == i < Len(t)

\* next() advancing the index on None as well
SetupDiEnumNextAlwaysAdvancing(t, i) ==
  IF SetupDiEnumDeviceInfo(t, i)
  THEN [item |-> i + 1, index |-> i + 1]
  ELSE [item |-> 0, index |-> i + 1]

\* SetupDiEnum::next: the item (a DevInst, 0 for None) and the index after
SetupDiEnumNext(t, i) ==
  IF SetupDiEnumDeviceInfo(t, i)
  THEN [item |-> i + 1, index |-> i + 1]
  ELSE [item |-> 0, index |-> i]

\* the closure of enum_game_controllers' filter
HwidFilter(node, misaligned) ==
  LET r == device_prop_multi_sz(node.hwid, misaligned) IN
  IF IsPanic(r) THEN Panic
  ELSE Ok(IsOk(r) /\ is_game_controller(r.val))

\* the closure's answer for every node profile
HwidKeeps ==
  [p \in ProfileNames |-> [m \in BOOLEAN |-> HwidFilter(Profile(p), m)]]

\* next() of enum_game_controllers' iterator: Filter::next takes items of
\* SetupDiEnum until the closure accepts one.  calls are the indices asked
\* of the device tree.
RECURSIVE EnumGameControllersNext(_, _, _, _)
EnumGameControllersNext(t, i, calls, misaligned) ==
  LET r == SetupDiEnumNext(t, i)
      asked == Append(calls, i)
  IN IF r.item = 0
     THEN [tag |-> "Ok", item |-> 0, index |-> r.index, calls |-> asked]
     ELSE LET keep == HwidKeeps[t[r.item]][misaligned] IN
          IF IsPanic(keep)
          THEN [tag |-> "Panic", item |-> 0, index |-> r.index, calls |-> asked]
          ELSE IF keep.val
          THEN [tag |-> "Ok", item |-> r.item, index |-> r.index, calls |-> asked]
          ELSE EnumGameControllersNext(t, r.index, asked, misaligned)

\* the closure without its comparison
IdMatchesAnyId(node, wanted) == IsOk(device_instance_id(node.iid))

\* the closure of devinfo_data's filter
IdMatches(node, wanted) ==
  LET instance_id == device_instance_id(node.iid) IN
  IsOk(instance_id) /\ instance_id.val = wanted

(***************************************************************************)
(* Controller Registry: the three operations, one call of one of them per  *)
(* behaviour.                                                              *)
(***************************************************************************)
VARIABLES
  tree,         \* the device tree the DeviceSet is a snapshot of
  op,           \* "list", "enable" or "disable"
  id,           \* the instance id passed to enable_device / disable_device
  pc,           \* where the call is
  index,        \* SetupDiEnum.index
  found,        \* the DevInst devinfo_data returned, 0 before
  controllers,  \* the Vec<GameController> collected so far
  result,       \* what the call returned
  acquired,     \* DeviceSets acquired by the call
  released,     \* SetupDiDestroyDeviceInfoList calls made by the call
  enumCalls,    \* indices passed to SetupDiEnumDeviceInfo, in order
  yielded,      \* items next() returned to a consumer of the enumerator
  statusLog,    \* outcomes of the CM_Get_DevNode_Status calls, in order
  cmCalls,      \* CM_Enable_DevNode / CM_Disable_DevNode calls, in order
  rdKind,       \* property read: "sz", "multi_sz" or "instance_id"
  rdDev,        \* property read: the platform's side of the property
  rdPc,         \* property read: where the read is
  rdBuflen,     \* property read: the size the size query reported
  rdCalls,      \* property read: the platform calls made, in order
  rdResult      \* property read: what the accessor returned

opVars == <<tree, op, id, pc, index, found, controllers, result, acquired,
            released, enumCalls, yielded, statusLog, cmCalls>>
rdVars == <<rdKind, rdDev, rdPc, rdBuflen, rdCalls, rdResult>>
vars == <<tree, op, id, pc, index, found, controllers, result, acquired,
          released, enumCalls, yielded, statusLog, cmCalls,
          rdKind, rdDev, rdPc, rdBuflen, rdCalls, rdResult>>

\* no property read under way
RdIdle ==
  /\ rdKind = "sz"
  /\ rdDev = Absent
  /\ rdPc = "idle"
  /\ rdBuflen = 0
  /\ rdCalls = <<>>
  /\ rdResult = NoResult

\* no operation under way
OpIdle(p) ==
  /\ op = "none"
  /\ id = <<>>
  /\ pc = p
  /\ index = 0
  /\ found = 0
  /\ controllers = <<>>
  /\ result = NoResult
  /\ acquired = 0
  /\ released = 0
  /\ enumCalls = <<>>
  /\ yielded = <<>>
  /\ statusLog = <<>>
  /\ cmCalls = <<>>

Init ==
  /\ tree \in Trees
  /\ \/ op = "list" /\ id = <<>>
     \/ op \in {"enable", "disable"} /\ id \in Ids
  /\ pc = "start"
  /\ index = 0
  /\ found = 0
  /\ controllers = <<>>
  /\ result = NoResult
  /\ acquired = 0
  /\ released = 0
  /\ enumCalls = <<>>
  /\ yielded = <<>>
  /\ statusLog = <<>>
  /\ cmCalls = <<>>
  /\ RdIdle

\* try_from_devinfo's answer for every node profile and status outcome
TryFromDevinfo ==
  [p \in ProfileNames |->
    [st \in StatusOutcomes |->
      [m \in BOOLEAN |-> try_from_devinfo(Profile(p), st, m)]]]

\* the id filter's answer for every node profile and requested id
IdFilter == [p \in ProfileNames |-> [i \in Ids |-> IdMatches(Profile(p), i)]]

\* devinfo_hid()?: SetupDiGetClassDevsW gives the DeviceSet or fails
devinfo_hid ==
  /\ pc = "start"
  /\ \E code \in {ERROR_SUCCESS, ERROR_INVALID_DATA} :
       IF code = ERROR_SUCCESS
       THEN /\ acquired' = acquired + 1
            /\ pc' = "enum"
            /\ result' = result
       ELSE /\ acquired' = acquired
            /\ pc' = "done"
            /\ result' = ErrWin32(code)
  /\ UNCHANGED <<tree, op, id, index, found, controllers, released, enumCalls,
                 yielded, statusLog, cmCalls>>
  /\ UNCHANGED rdVars

\* filter_map's closure in game_controllers: try_from_devinfo(..).ok()
Collect(acc, c) == IF IsOk(c) THEN Append(acc, c.val) ELSE acc

\* game_controllers: one item of the collect()
game_controllers_next ==
  /\ pc = "enum"
  /\ op = "list"
  /\ \E misaligned \in BOOLEAN :
       LET r == EnumGameControllersNext(tree, index, <<>>, misaligned) IN
       /\ index' = r.index
       /\ enumCalls' = enumCalls \o r.calls
       /\ IF r.tag = "Panic"
          THEN pc' = "panicked" /\ UNCHANGED <<controllers, statusLog>>
          ELSE IF r.item = 0
          THEN pc' = "release" /\ UNCHANGED <<controllers, statusLog>>
          ELSE \E st \in StatusOutcomes :
                 LET c == TryFromDevinfo[tree[r.item]][st][misaligned] IN
                 /\ statusLog' = IF StatusQueried(c)
                                 THEN Append(statusLog, st) ELSE statusLog
                 /\ IF IsPanic(c)
                    THEN pc' = "panicked" /\ UNCHANGED controllers
                    ELSE pc' = "enum" /\ controllers' = Collect(controllers, c)
  /\ UNCHANGED <<tree, op, id, found, result, acquired, released, yielded, cmCalls>>
  /\ UNCHANGED rdVars

\* game_controllers: SetupDiDestroyDeviceInfoList(devinfo)?; Ok(result)
game_controllers_release ==
  /\ pc = "release"
  /\ op = "list"
  /\ released' = released + 1
  /\ \E code \in {ERROR_SUCCESS, ERROR_INVALID_DATA} :
       result' = IF code = ERROR_SUCCESS THEN Ok(controllers) ELSE ErrWin32(code)
  /\ pc' = "done"
  /\ UNCHANGED <<tree, op, id, index, found, controllers, acquired, enumCalls,
                 yielded, statusLog, cmCalls>>
  /\ UNCHANGED rdVars

\* devinfo_data: one item of enum_game_controllers put to the id filter, and
\* the None arm of the caller's match
devinfo_data_next ==
  /\ pc = "enum"
  /\ op \in {"enable", "disable"}
  /\ \E misaligned \in BOOLEAN :
       LET r == EnumGameControllersNext(tree, index, <<>>, misaligned) IN
       /\ index' = r.index
       /\ enumCalls' = enumCalls \o r.calls
       /\ IF r.tag = "Panic"
          THEN pc' = "panicked" /\ UNCHANGED <<found, result>>
          ELSE IF r.item = 0
          THEN pc' = "done" /\ result' = ErrNotFound /\ UNCHANGED found
          ELSE IF IdFilter[tree[r.item]][id]
          THEN pc' = "found" /\ found' = r.item /\ UNCHANGED result
          ELSE pc' = "enum" /\ UNCHANGED <<found, result>>
  /\ UNCHANGED <<tree, op, id, controllers, acquired, released, yielded,
                 statusLog, cmCalls>>
  /\ UNCHANGED rdVars

\* enable_device written as a copy of disable_device
PrimitiveOfDisableOnly(o) == "CM_Disable_DevNode"

\* the primitive each operation calls on data.DevInst
PrimitiveOf(o) == IF o = "enable" THEN "CM_Enable_DevNode" ELSE "CM_Disable_DevNode"

\* if result != CR_SUCCESS { return Err(Error::ConfigRet(result).into()); }
\* return Ok(());
DevNodeResult(c) == IF c # CR_SUCCESS THEN ErrConfigRet(c) ELSE Ok(<<>>)

\* the Some(data) arm of enable_device / disable_device
devnode_call ==
  /\ pc = "found"
  /\ \E c \in ConfigRets :
       /\ cmCalls' = Append(cmCalls, [fn |-> PrimitiveOf(op), devinst |-> found, ret |-> c])
       /\ result' = DevNodeResult(c)
  /\ pc' = "done"
  /\ UNCHANGED <<tree, op, id, index, found, controllers, acquired, released,
                 enumCalls, yielded, statusLog>>
  /\ UNCHANGED rdVars

Next ==
  \/ devinfo_hid
  \/ game_controllers_next
  \/ game_controllers_release
  \/ devinfo_data_next
  \/ devnode_call

Spec == Init /\ [][Next]_vars

(***************************************************************************)
(* A consumer of enum_game_controllers' iterator that keeps calling next(). *)
(***************************************************************************)
NoneCount == Cardinality({k \in 1..Len(yielded) : yielded[k] = 0})

InitEnum ==
  /\ tree \in Trees
  /\ op = "none"
  /\ id = <<>>
  /\ pc = "iter"
  /\ index = 0
  /\ found = 0
  /\ controllers = <<>>
  /\ result = NoResult
  /\ acquired = 1
  /\ released = 0
  /\ enumCalls = <<>>
  /\ yielded = <<>>
  /\ statusLog = <<>>
  /\ cmCalls = <<>>
  /\ RdIdle

enum_next ==
  /\ pc = "iter"
  /\ NoneCount < MaxExtraNext
  /\ \E misaligned \in BOOLEAN :
       LET r == EnumGameControllersNext(tree, index, <<>>, misaligned) IN
       /\ index' = r.index
       /\ enumCalls' = enumCalls \o r.calls
       /\ IF r.tag = "Panic"
          THEN pc' = "panicked" /\ UNCHANGED yielded
          ELSE pc' = "iter" /\ yielded' = Append(yielded, r.item)
  /\ UNCHANGED <<tree, op, id, found, controllers, result, acquired, released,
                 statusLog, cmCalls>>
  /\ UNCHANGED rdVars

NextEnum == enum_next

SpecEnum == InitEnum /\ [][NextEnum]_vars

(***************************************************************************)
(* A single property read, one platform call per step.                     *)
(***************************************************************************)
UnitAlphabet == {0, 65, 66, 55357, 56832}
UnitBufs == SeqsUpTo(UnitAlphabet, MaxUnits)
TextBufs == SeqsUpTo(UnitAlphabet \ {0}, MaxUnits)

\* the multi-string of the specification's round-trip scenario
ScenarioHwid == MultiSzData(<<TextUsbVid, GAME_CONTROLLER_HARDWARE_ID, <<>> >>)

\* registry data: every drawn buffer, the same with an odd trailing byte,
\* and the scenario's
ByteBufs ==
  {Utf16LE(u) : u \in UnitBufs}
    \cup {Append(Utf16LE(u), 65) : u \in UnitBufs}
    \cup {ScenarioHwid, SzData(TextDescription)}

\* a size query with no buffer succeeds only when there is nothing to store
SizeQueryCodes(data) ==
  {ERROR_INSUFFICIENT_BUFFER, ERROR_INVALID_DATA}
    \cup (IF data = <<>> THEN {ERROR_SUCCESS} ELSE {})

PropDevs(kind) ==
  LET datas == IF kind = "instance_id"
               THEN {IdData(u) : u \in TextBufs}
               ELSE ByteBufs
  IN UNION {[q : SizeQueryCodes(d), f : {ERROR_SUCCESS, ERROR_INVALID_DATA}, data : {d}]
              : d \in datas}

InitRead ==
  /\ OpIdle("idle")
  /\ tree = <<>>
  /\ rdKind \in {"sz", "multi_sz", "instance_id"}
  /\ rdDev \in PropDevs(rdKind)
  /\ rdPc = "query"
  /\ rdBuflen = 0
  /\ rdCalls = <<>>
  /\ rdResult = NoResult

\* prop_bufsize, and the first call of device_instance_id: the call with no
\* output buffer
size_query ==
  /\ rdPc = "query"
  /\ rdCalls' = Append(rdCalls, [call |-> "size_query", buffer |-> -1,
                                 code |-> rdDev.q, required |-> RequiredSize(rdDev)])
  /\ LET n == prop_bufsize(rdDev) IN
     IF IsErr(n)
     THEN rdResult' = n /\ rdPc' = "done" /\ UNCHANGED rdBuflen
     ELSE rdBuflen' = n.val /\ rdPc' = "fetch" /\ UNCHANGED rdResult
  /\ UNCHANGED <<rdKind, rdDev>>
  /\ UNCHANGED opVars

\* the allocation, the second call and the decoding
fetch ==
  /\ rdPc = "fetch"
  /\ \E misaligned \in BOOLEAN :
       LET buf == AllocBuf(rdBuflen)
           b == FetchInto(rdDev, buf)
       IN /\ rdCalls' = Append(rdCalls,
                               [call |-> "fetch", buffer |-> Len(buf),
                                code |-> IF IsErr(b) THEN b.code ELSE ERROR_SUCCESS,
                                required |-> 0])
          /\ rdResult' = IF IsErr(b) THEN b ELSE DecodeBuf(rdKind, b.val, misaligned)
  /\ rdPc' = "done"
  /\ UNCHANGED <<rdKind, rdDev, rdBuflen>>
  /\ UNCHANGED opVars

NextRead == size_query \/ fetch

SpecRead == InitRead /\ [][NextRead]_vars

(***************************************************************************)
(* What the properties below are stated in: the device tree as stored,     *)
(* not as the program decodes it.                                          *)
(***************************************************************************)
\* profiles whose stored hardware ids are readable, well formed and contain
\* the marker as one of their strings
GameProfiles == {"padA", "padB", "nodesc", "nomfg", "noiid", "rawdesc"}

\* profiles whose description, manufacturer and instance id can all be read
ResolvingProfiles == {"padA", "padB"}

\* the instance id stored for a profile, without its terminator
StoredIdText(p) == IF p \in {"padB", "nomfg", "rawdesc"} THEN TextIdB ELSE TextIdA

\* the instance id device_instance_id resolves for every profile
ResolvedIds == [p \in ProfileNames |-> device_instance_id(Profile(p).iid)]

\* the nodes of the DeviceSet the call acquired
CurrentEnumeration == IF acquired >= 1 THEN 1..Len(tree) ELSE {}

\* the filter-passing nodes of the current enumeration whose resolved
\* instance id is the one asked for
MatchingNodes ==
  {i \in CurrentEnumeration :
     /\ tree[i] \in GameProfiles
     /\ IsOk(ResolvedIds[tree[i]])
     /\ ResolvedIds[tree[i]].val = id}

Min(S) == CHOOSE x \in S : \A y \in S : x <= y

RECURSIVE SortedSeq(_)
SortedSeq(S) == IF S = {} THEN <<>> ELSE <<Min(S)>> \o SortedSeq(S \ {Min(S)})

\* positions 1..n of the tree that hold a game controller, ascending
PassingPositions(t, n) == SortedSeq({i \in 1..n : t[i] \in GameProfiles})

HasBit(f, bit) == (f \div bit) % 2 = 1

Returned == pc = "done"

(***************************************************************************)
(* C1.  Every operation that acquired a DeviceSet has released it exactly  *)
(* once when it returns, whatever it returns.                              *)
(***************************************************************************)
C1_ReleasedOnEveryExit == (Returned /\ acquired = 1) => released = 1

(***************************************************************************)
(* C2.  For the flags f obtained for a node (0 when the status query       *)
(* answers "no such node"): Disconnected iff f = 0, Disabled iff f # 0     *)
(* without the STARTED bit, Enabled iff the STARTED bit is set, and        *)
(* disableable iff the DISABLEABLE bit is set.                             *)
(***************************************************************************)
StatusAnswered(st) == st.cr \in {CR_SUCCESS, CR_NO_SUCH_DEVNODE}
AnsweredStatus == SelectSeq(statusLog, StatusAnswered)
FlagsObtained(st) == IF st.cr = CR_NO_SUCH_DEVNODE THEN 0 ELSE st.flags

C2_StatusDerivation ==
  op = "list" =>
    /\ Len(controllers) = Len(AnsweredStatus)
    /\ \A k \in 1..Len(controllers) :
         LET f == FlagsObtained(AnsweredStatus[k])
             c == controllers[k]
         IN /\ c.status \in {"Enabled", "Disabled", "Disconnected"}
            /\ c.status = "Disconnected" <=> f = 0
            /\ c.status = "Disabled" <=> (f # 0 /\ ~HasBit(f, DN_STARTED))
            /\ c.status = "Enabled" <=> HasBit(f, DN_STARTED)
            /\ c.disableable <=> HasBit(f, DN_DISABLEABLE)
            /\ c.status = "Disconnected" => ~c.disableable

C2_Witness ==
  /\ Returned /\ op = "list" /\ IsOk(result)
  /\ \E i, j, k \in 1..Len(controllers) :
       /\ controllers[i].status = "Disabled" /\ controllers[i].disableable
       /\ controllers[j].status = "Disconnected"
       /\ AnsweredStatus[j] = [cr |-> CR_NO_SUCH_DEVNODE, flags |-> 8]
       /\ controllers[k].status = "Enabled" /\ ~controllers[k].disableable

(***************************************************************************)
(* C3.  As stated: enable_device / disable_device with an id that no       *)
(* filter-passing node of the current enumeration resolves to returns      *)
(* NotFound and calls no device-node primitive.                            *)
(***************************************************************************)
C3_NotFoundAlways ==
  (Returned /\ op \in {"enable", "disable"} /\ MatchingNodes = {})
    => (IsErr(result) /\ result.kind = "NotFound" /\ cmCalls = <<>>)

(***************************************************************************)
(* C3, amended.  Once the DeviceSet is acquired, enable_device /           *)
(* disable_device with an id that no filter-passing node resolves to       *)
(* never reaches a device-node primitive, and returns NotFound.            *)
(***************************************************************************)
C3_NotFoundOnceAcquired ==
  (op \in {"enable", "disable"} /\ acquired = 1 /\ MatchingNodes = {})
    => /\ cmCalls = <<>>
       /\ pc # "found"
       /\ Returned => (IsErr(result) /\ result.kind = "NotFound")

C3_Witness ==
  /\ Returned /\ op = "enable" /\ acquired = 1 /\ MatchingNodes = {}
  /\ id = IdData(TextIdB)
  /\ \E i, j \in 1..Len(tree) : tree[i] = "padA" /\ tree[j] = "other"
  /\ \A i \in 1..Len(tree) : StoredIdText(tree[i]) # TextIdB
  /\ IsErr(result) /\ result.kind = "NotFound"

(***************************************************************************)
(* C4.  When some filter-passing node resolves to the id asked for, the    *)
(* operation calls its own primitive exactly once, on the first such node, *)
(* returns Ok iff the primitive returns CR_SUCCESS, and otherwise returns  *)
(* the primitive's code as a ConfigRet error.                              *)
(***************************************************************************)
C4_PrimitiveOnFirstMatch ==
  /\ Len(cmCalls) <= 1
  /\ \A k \in 1..Len(cmCalls) :
       cmCalls[k].fn = (IF op = "enable" THEN "CM_Enable_DevNode"
                        ELSE "CM_Disable_DevNode")
  /\ (Returned /\ op \in {"enable", "disable"} /\ MatchingNodes # {}) =>
       /\ Len(cmCalls) = 1
       /\ cmCalls[1].devinst = Min(MatchingNodes)
       /\ IsOk(result) <=> cmCalls[1].ret = CR_SUCCESS
       /\ cmCalls[1].ret # CR_SUCCESS =>
            /\ IsErr(result)
            /\ result.kind = "ConfigRet"
            /\ result.code = cmCalls[1].ret

C4_Witness ==
  /\ Returned /\ op = "disable"
  /\ Cardinality(MatchingNodes) >= 2
  /\ Min(MatchingNodes) > 1
  /\ tree[1] \in GameProfiles
  /\ Len(cmCalls) = 1 /\ cmCalls[1].ret = CR_FAILURE

(***************************************************************************)
(* C5.  A game_controllers() call that returns Ok returns one record, in   *)
(* enumeration order, for each filter-passing node whose name,             *)
(* manufacturer and instance id all resolve.                               *)
(***************************************************************************)
ResolvingPositions ==
  SortedSeq({i \in 1..Len(tree) : tree[i] \in GameProfiles \cap ResolvingProfiles})

C5_OneRecordPerResolvingNode ==
  (Returned /\ op = "list" /\ IsOk(result)) =>
    /\ Len(result.val) = Len(ResolvingPositions)
    /\ \A k \in 1..Len(result.val) :
         /\ result.val[k].name = TextDescription
         /\ result.val[k].manufacturer = TextManufacturer
         /\ result.val[k].instance_id = ResolvedIds[tree[ResolvingPositions[k]]].val

(***************************************************************************)
(* C6.  A status query that fails (neither success nor "no such node")     *)
(* during game_controllers() makes the call return that code as an error.  *)
(***************************************************************************)
C6_StatusFailurePropagates ==
  (Returned /\ op = "list") =>
    \A k \in 1..Len(statusLog) :
      ~StatusAnswered(statusLog[k]) =>
        (IsErr(result) /\ result.kind = "ConfigRet" /\ result.code = statusLog[k].cr)

(***************************************************************************)
(* C10.  The instance id of a GameController record is the node's textual  *)
(* instance id without its terminator: it contains no null character.      *)
(***************************************************************************)
C10_InstanceIdWithoutTerminator ==
  op = "list" =>
    \A k \in 1..Len(controllers) :
      /\ \A n \in 1..Len(controllers[k].instance_id) : controllers[k].instance_id[n] # 0
      /\ controllers[k].instance_id \in {TextIdA, TextIdB}

(***************************************************************************)
(* C7.  multi_sz_from_utf16_in_u8 returns the maximal non-empty runs of    *)
(* non-null code units of the buffer, each decoded, in buffer order, and   *)
(* no empty string; the scenario's buffer decodes to its two strings and   *)
(* is_game_controller accepts it.  Where it returns nothing, a run is not  *)
(* well-formed UTF-16 or the buffer is empty.                              *)
(***************************************************************************)
RunStarts(u) == {i \in 1..Len(u) : u[i] # 0 /\ (i = 1 \/ u[i - 1] = 0)}
RunEnd(u, i) == Min({j \in i..Len(u) : j = Len(u) \/ u[j + 1] = 0})
Runs(u) ==
  LET starts == SortedSeq(RunStarts(u)) IN
  [k \in 1..Len(starts) |-> SubSeq(u, starts[k], RunEnd(u, starts[k]))]

\* the code units the platform stored: two bytes each, low byte first
StoredUnits(data) ==
  [i \in 1..(Len(data) \div 2) |-> data[2 * i - 1] + 256 * data[2 * i]]

IllFormed(run) == \E n \in 1..Len(decode_utf16(run)) : decode_utf16(run)[n] = -1

Fetched == rdPc = "done" /\ Len(rdCalls) = 2 /\ rdCalls[2].code = ERROR_SUCCESS

C7_MultiSzRuns ==
  (Fetched /\ rdKind = "multi_sz") =>
    LET runs == Runs(StoredUnits(rdDev.data)) IN
    /\ IsOk(rdResult) =>
         /\ Len(rdResult.val) = Len(runs)
         /\ \A k \in 1..Len(runs) :
              rdResult.val[k] = decode_utf16(runs[k]) /\ rdResult.val[k] # <<>>
    /\ ~IsOk(rdResult) =>
         /\ IsPanic(rdResult)
         /\ rdDev.data = <<>> \/ \E k \in 1..Len(runs) : IllFormed(runs[k])
    /\ rdDev.data = ScenarioHwid =>
         /\ IsOk(rdResult)
         /\ rdResult.val = <<TextUsbVid, GAME_CONTROLLER_HARDWARE_ID>>
         /\ is_game_controller(rdResult.val)

C7_Witness ==
  /\ Fetched /\ rdKind = "multi_sz" /\ IsOk(rdResult)
  /\ StoredUnits(rdDev.data) = <<0, 65, 0>>
  /\ rdResult.val = << <<65>> >>

(***************************************************************************)
(* C8.  A registry property read makes one size query with no buffer; if   *)
(* that fails with anything but "insufficient buffer" the error is         *)
(* returned and nothing is fetched; otherwise it makes exactly one fetch   *)
(* with a buffer of the size reported, and a failed fetch is returned as   *)
(* an error.  No call is made twice.                                       *)
(***************************************************************************)
SizeKnown(code) == code \in {ERROR_SUCCESS, ERROR_INSUFFICIENT_BUFFER}

C8_TwoPhaseRead ==
  rdKind \in {"sz", "multi_sz"} =>
    /\ Len(rdCalls) <= 2
    /\ rdPc = "query" => Len(rdCalls) = 0
    /\ rdPc = "fetch" => Len(rdCalls) = 1 /\ SizeKnown(rdCalls[1].code)
    /\ Len(rdCalls) >= 1 =>
         rdCalls[1].call = "size_query" /\ rdCalls[1].buffer = -1
    /\ Len(rdCalls) = 2 =>
         /\ rdCalls[2].call = "fetch"
         /\ rdCalls[2].buffer = rdCalls[1].required
    /\ rdPc = "done" =>
         IF SizeKnown(rdCalls[1].code)
         THEN /\ Len(rdCalls) = 2
              /\ rdCalls[2].code # ERROR_SUCCESS =>
                   /\ IsErr(rdResult)
                   /\ rdResult.kind = "Win32"
                   /\ rdResult.code = rdCalls[2].code
         ELSE /\ Len(rdCalls) = 1
              /\ IsErr(rdResult)
              /\ rdResult.kind = "Win32"
              /\ rdResult.code = rdCalls[1].code

C8_Witness ==
  /\ rdKind = "sz" /\ rdPc = "done"
  /\ Len(rdCalls) = 2
  /\ rdCalls[1].code = ERROR_INSUFFICIENT_BUFFER /\ rdCalls[1].required = 6
  /\ rdCalls[2].code = ERROR_INVALID_DATA
  /\ IsErr(rdResult)

(***************************************************************************)
(* C9.  The enumerator asks the device tree for indices 0, 1, 2, ... with  *)
(* none skipped or repeated up to the first absent one, yields exactly the *)
(* nodes whose hardware ids contain the marker, in index order and once    *)
(* each, skips a node whose hardware ids cannot be read, and after its     *)
(* first None keeps returning None with the index where it was.            *)
(***************************************************************************)
IsItem(x) == x # 0

C9_EnumerationOrder ==
  /\ index <= Len(tree)
  /\ \A k \in 1..Len(enumCalls) :
       enumCalls[k] = (IF k <= Len(tree) THEN k - 1 ELSE Len(tree))
  /\ SelectSeq(yielded, IsItem) = PassingPositions(tree, index)
  /\ \A k \in 1..Len(yielded) :
       yielded[k] = 0 =>
         /\ index = Len(tree)
         /\ \A j \in k..Len(yielded) : yielded[j] = 0
  /\ NoneCount >= 1 => Len(enumCalls) = Len(tree) + NoneCount

C9_Witness ==
  /\ pc = "iter"
  /\ NoneCount = 2
  /\ \E i, j, k \in 1..Len(tree) :
       /\ i < j /\ j < k
       /\ tree[i] = "padA" /\ tree[j] = "nohwid" /\ tree[k] = "padB"
  /\ yielded = <<1, 3, 0, 0>>

=============================================================================
